---- MODULE Spec2Model ----
(***************************************************************************)
(* Model of src/datalink/winpcap.rs: the WinPcap datalink channel.         *)
(*                                                                         *)
(*   datalink_channel      opens the adapter, configures it, allocates the *)
(*                         two packet descriptors, returns (sender,        *)
(*                         receiver) sharing one Arc<WinPcapAdapter>;      *)
(*   build_and_send        the sender's chunked build + PacketSendPacket;  *)
(*   send_to               build_and_send of one packet, cloned into the   *)
(*                         chunk;                                          *)
(*   iter / next           the receiver's PacketReceivePacket + bpf decode *)
(*                         loop + pop of one (start, len) record;          *)
(*   drop glue             of the sender, the receiver, and of the locals  *)
(*                         of datalink_channel on an early return.         *)
(*                                                                         *)
(* Machine integers are scaled: usize is UsizeBits wide, u32 (the UINT     *)
(* Length field) is U32Bits wide, U32Bits < UsizeBits as on a 64-bit       *)
(* target.                                                                 *)
(***************************************************************************)
EXTENDS Integers, Sequences, FiniteSets

VARIABLES
    \* ---- life cycle (datalink_channel and the drop glue)
    opens,      \* number of datalink_channel calls made so far
    openRes,    \* result of the last datalink_channel call: "none", "Ok", "Err"
    sender,     \* DataLinkSenderImpl: "none", "alive", "dropped"
    receiver,   \* DataLinkReceiverImpl: "none", "alive", "dropped"
    arc,        \* strong count of the Arc<WinPcapAdapter> of the current channel
    trace,      \* every driver call and every Vec allocation/release, in order
    \* ---- sender (build_and_send)
    wLength,    \* (*self.packet.packet).Length of the write descriptor
    spc,        \* position inside build_and_send: "idle", "build", "send", "insend"
    sargs,      \* [n, size]: num_packets and packet_size of the current/last call
    smin,       \* local min: the length of the slice that is chunked
    sidx,       \* 1-based index of the chunk of the current loop iteration
    sold,       \* local old_len
    sres,       \* result of the last call: "none", "None", "SomeOk", "SomeErr", "Panic"
    slog,       \* builds and transmits of the current/last call, in order
    slen0,      \* Length of the write descriptor when the current/last call began
    sends,      \* number of build_and_send calls made on the current sender
    frame,      \* the packet given to send_to when the current/last call came from it
    wbuf,       \* the bytes of the write buffer
    wire,       \* the bytes each transmit of the current/last call handed to the driver
    \* ---- receiver (iter, next)
    rLength,    \* (*self.packet.packet).Length of the read descriptor
    rBytes,     \* (*self.pc.packet.packet).ulBytesReceived
    rbuf,       \* the read buffer, seen as the bpf_hdr found at each word
    iter,       \* whether a DataLinkChannelIteratorImpl borrows the receiver
    rpc,        \* position inside next: "idle", "inrecv", "hang"
    packets,    \* self.packets, the RingBuf of (start, len)
    rret,       \* local ret of next(): what PacketReceivePacket returned (-1: no call yet)
    rres,       \* result of the last next(): "none", "Ok", "Err", "Panic"
    rview,      \* the (start, len) of the frame the last Ok next() yielded
    recvs,      \* number of PacketReceivePacket calls issued on this receiver
    batch,      \* what the driver delivered in the last successful receive
    queued,     \* the records the decode loop queued after that receive
    decoded,    \* every record the decode loop queued on this iterator, in order
    yielded,    \* every record next() yielded on this iterator, in order
    rdata,      \* the bytes of the read buffer
    echo        \* the payload the last successful receive delivered when it was a
                \* transmitted frame, else << >>

lifeVars == <<opens, openRes, sender, receiver, arc, trace>>
sendVars == <<wLength, spc, sargs, smin, sidx, sold, sres, slog, slen0, sends,
              frame, wbuf, wire>>
recvVars == <<rLength, rBytes, rbuf, iter, rpc, packets, rret, rres, rview, recvs,
              batch, queued, decoded, yielded, rdata, echo>>
vars == <<lifeVars, sendVars, recvVars>>

(***************************************************************************)
(* Bounds of the model.                                                    *)
(***************************************************************************)
UsizeBits == 10
U32Bits == 8
MaxCount == 3
MaxOpens == 2
MaxSends == 2
MaxRecvs == 2
MaxRecs == 2

\* BPF_ALIGNMENT: the word size W of the record framing
WordSize == 8

UsizeMod == 2 ^ UsizeBits
U32Mod == 2 ^ U32Bits

\* write_buffer_size / read_buffer_size given to datalink_channel
WriteBufSizes == {0, 6}
ReadBufSizes == {128}
\* packet_size given to build_and_send: small sizes and one size that does
\* not fit the 32-bit Length field
PacketSizes == (0 .. MaxCount) \cup {U32Mod + 1}
\* num_packets given to build_and_send: small counts and every usize count
\* whose product with one of the sizes overflows usize to a small value
Counts == (0 .. MaxCount) \cup
          {c \in 0 .. (UsizeMod - 1) :
              \E s \in PacketSizes : c * s >= UsizeMod /\ (c * s) % UsizeMod <= MaxCount}

Min(a, b) == IF a <= b THEN a ELSE b

\* `x as u32` / `x as winpcap::UINT`
AsU32(x) == x % U32Mod

\* usize multiplication of an unchecked build
WrappingMul(a, b) == (a * b) % UsizeMod

(***************************************************************************)
(* Life cycle.                                                             *)
(***************************************************************************)
Ev(op, obj, h, ok) == [op |-> op, obj |-> obj, h |-> h, ok |-> ok]

\* impl Drop for WinPcapAdapter (the handle of a constructed adapter is non-null)
WinPcapAdapterDropLeak(h) == << >>
WinPcapAdapterDrop(h) == << Ev("PacketCloseAdapter", "adapter", h, TRUE) >>

\* impl Drop for WinPcapPacket
WinPcapPacketDrop(obj, h) == << Ev("PacketFreePacket", obj, h, TRUE) >>

\* release of a Vec<u8> backing array
VecDrop(obj, h) == << Ev("VecFree", obj, h, TRUE) >>

\* drop of one Arc<WinPcapAdapter> clone when the strong count is n
ArcDropEager(n, h) == WinPcapAdapterDrop(h)
ArcDrop(n, h) == IF n = 1 THEN WinPcapAdapterDrop(h) ELSE << >>

\* the locals of datalink_channel in declaration order
Locals == << "read_buffer", "write_buffer", "adapter", "read_packet", "write_packet" >>

DropLocal(l, h) ==
    CASE l = "read_buffer"  -> VecDrop("r", h)
      [] l = "write_buffer" -> VecDrop("w", h)
      [] l = "adapter"      -> WinPcapAdapterDrop(h)
      [] l = "read_packet"  -> WinPcapPacketDrop("r", h)
      [] l = "write_packet" -> WinPcapPacketDrop("w", h)

\* an early return drops the first k locals, last declared first
RECURSIVE Unwind(_, _)
Unwind(k, h) == IF k = 0 THEN << >> ELSE DropLocal(Locals[k], h) \o Unwind(k - 1, h)

\* the fallible steps of datalink_channel, in program order
Stages == << "PacketOpenAdapter", "PacketSetHwFilter", "PacketSetBuff",
             "PacketSetMinToCopy", "with_buf_r", "with_buf_w" >>

\* number of locals alive when stage i fails
LiveAtFailure == << 2, 3, 3, 3, 3, 4 >>

\* WinPcapPacket::with_buf: PacketAllocatePacket, then PacketInitPacket
WithBuf(obj, h, ok) ==
    IF ok THEN << Ev("PacketAllocatePacket", obj, h, TRUE), Ev("PacketInitPacket", obj, h, TRUE) >>
    ELSE << Ev("PacketAllocatePacket", obj, h, FALSE) >>

StageEvents(i, h, ok) ==
    CASE i = 5 -> WithBuf("r", h, ok)
      [] i = 6 -> WithBuf("w", h, ok)
      [] OTHER -> << Ev(Stages[i], "adapter", h, ok) >>

\* a datalink_channel whose failing stage does not return
RECURSIVE SetupNoReturn(_, _, _)
SetupNoReturn(i, h, fail) ==
    IF i > Len(Stages) THEN IF fail = 0 THEN << >> ELSE Unwind(Len(Locals), h)
    ELSE StageEvents(i, h, i # fail) \o SetupNoReturn(i + 1, h, fail)

\* stages i .. 6 of datalink_channel when stage `fail` fails (0: none does)
RECURSIVE Setup(_, _, _)
Setup(i, h, fail) ==
    IF i > Len(Stages) THEN << >>
    ELSE IF i = fail THEN StageEvents(i, h, FALSE) \o Unwind(LiveAtFailure[i], h)
    ELSE StageEvents(i, h, TRUE) \o Setup(i + 1, h, fail)

\* datalink_channel: the two Vecs, then the stages
DatalinkChannel(h, fail) ==
    << Ev("VecAlloc", "r", h, TRUE), Ev("VecAlloc", "w", h, TRUE) >> \o Setup(1, h, fail)

(***************************************************************************)
(* Initial state: no channel has been opened.                              *)
(***************************************************************************)
NoArgs == [n |-> 0, size |-> 0]
NoView == [start |-> 0, len |-> 0]
NoBatch == [recs |-> << >>, n |-> 0]
\* build_and_send called with a closure of the caller, not by send_to
NoFrame == [some |-> FALSE, bytes |-> << >>]
\* a buffer of size zero bytes
Zeros(size) == [k \in 1 .. size |-> 0]

SenderIdle ==
    /\ spc = "idle" /\ sargs = NoArgs /\ smin = 0 /\ sidx = 0 /\ sold = 0
    /\ sres = "none" /\ slog = << >> /\ sends = 0
    /\ frame = NoFrame /\ wire = << >>

IteratorGone ==
    /\ iter = FALSE /\ rpc = "idle" /\ packets = << >> /\ rret = -1 /\ rres = "none"
    /\ rview = NoView /\ recvs = 0 /\ batch = NoBatch /\ queued = << >>
    /\ decoded = << >> /\ yielded = << >> /\ echo = << >>

Init ==
    /\ opens = 0 /\ openRes = "none" /\ sender = "none" /\ receiver = "none"
    /\ arc = 0 /\ trace = << >>
    /\ wLength = 0 /\ slen0 = 0 /\ wbuf = << >> /\ SenderIdle
    /\ rLength = 0 /\ rBytes = 0 /\ rbuf = << >> /\ rdata = << >> /\ IteratorGone

(***************************************************************************)
(* datalink_channel(network_interface, read_buffer_size, write_buffer_size,*)
(* channel_type).  fail = 0: every driver call succeeds; fail = i: stage i *)
(* is the first to fail.  One channel is open at a time.                   *)
(***************************************************************************)
ZeroHdr == [hdrlen |-> 0, caplen |-> 0]

\* PacketInitPacket(packet, buf.as_mut_ptr(), buf.len() as UINT)
InitLength(size) == AsU32(size)

Open(rs, ws, fail) ==
    /\ opens < MaxOpens
    /\ sender # "alive" /\ receiver # "alive"
    /\ opens' = opens + 1
    /\ trace' = trace \o DatalinkChannel(opens + 1, fail)
    /\ IF fail = 0
       THEN /\ openRes' = "Ok"
            /\ sender' = "alive" /\ receiver' = "alive"
            /\ arc' = 2
       ELSE /\ openRes' = "Err"
            /\ sender' = "none" /\ receiver' = "none"
            /\ arc' = 0
    /\ wLength' = IF fail = 0 THEN InitLength(ws) ELSE 0
    /\ slen0' = 0
    /\ spc' = "idle" /\ sargs' = NoArgs /\ smin' = 0 /\ sidx' = 0 /\ sold' = 0
    /\ sres' = "none" /\ slog' = << >> /\ sends' = 0
    /\ frame' = NoFrame /\ wire' = << >>
    /\ wbuf' = IF fail = 0 THEN Zeros(ws) ELSE << >>
    /\ rdata' = IF fail = 0 THEN Zeros(rs) ELSE << >>
    /\ echo' = << >>
    /\ rLength' = IF fail = 0 THEN InitLength(rs) ELSE 0
    /\ rBytes' = 0
    /\ rbuf' = IF fail = 0 THEN [k \in 1 .. (rs \div WordSize) |-> ZeroHdr] ELSE << >>
    /\ iter' = FALSE /\ rpc' = "idle" /\ packets' = << >> /\ rret' = -1 /\ rres' = "none"
    /\ rview' = NoView /\ recvs' = 0 /\ batch' = NoBatch /\ queued' = << >>
    /\ decoded' = << >> /\ yielded' = << >>

\* drop glue of DataLinkSenderImpl: fields in declaration order
\* (adapter: Arc<WinPcapAdapter>, _vec: Vec<u8>, packet: WinPcapPacket)
SenderDropGlue(n, h) == ArcDrop(n, h) \o VecDrop("w", h) \o WinPcapPacketDrop("w", h)

\* drop glue of DataLinkReceiverImpl: the same fields, the read side
ReceiverDropGlue(n, h) == ArcDrop(n, h) \o VecDrop("r", h) \o WinPcapPacketDrop("r", h)

\* the sender goes out of scope; build_and_send borrows it for a whole call
DropSender ==
    /\ sender = "alive" /\ spc = "idle"
    /\ sender' = "dropped"
    /\ arc' = arc - 1
    /\ trace' = trace \o SenderDropGlue(arc, opens)
    /\ UNCHANGED <<opens, openRes, receiver, sendVars, recvVars>>

\* the receiver goes out of scope; an iterator borrows it while it lives
DropReceiver ==
    /\ receiver = "alive" /\ iter = FALSE
    /\ receiver' = "dropped"
    /\ arc' = arc - 1
    /\ trace' = trace \o ReceiverDropGlue(arc, opens)
    /\ UNCHANGED <<opens, openRes, sender, sendVars, recvVars>>

(***************************************************************************)
(* DataLinkSenderImpl::build_and_send(num_packets, packet_size, func).     *)
(***************************************************************************)
\* slice.chunks_mut(size) of a slice of len bytes: consecutive chunks of
\* size bytes, the last one shorter when size does not divide len
NumChunks(len, size) == (len + size - 1) \div size

Chunk(len, size, i) == [off |-> (i - 1) * size, len |-> Min(size, len - (i - 1) * size)]

SLog(op, idx, off, len, ret) == [op |-> op, idx |-> idx, off |-> off, len |-> len, ret |-> ret]

\* `len >= (*self.packet.packet).Length as usize`
DoesNotFit(len, length) == len >= length

\* entry of build_and_send up to the first loop iteration; the product
\* num_packets * packet_size wraps (an unchecked build)
BuildAndSendFrom(n, size, fr) ==
    /\ sender = "alive" /\ spc = "idle" /\ sends < MaxSends
    /\ sends' = sends + 1
    /\ sargs' = [n |-> n, size |-> size]
    /\ frame' = fr
    /\ slen0' = wLength
    /\ slog' = << >>
    /\ wire' = << >>
    /\ sold' = 0
    /\ LET len == WrappingMul(n, size)
           min == Min(wLength, len)
       IN IF DoesNotFit(len, wLength)
          THEN /\ sres' = "None" /\ spc' = "idle" /\ smin' = 0 /\ sidx' = 0
          ELSE IF size = 0
          THEN \* chunks_mut asserts chunk_size > 0
               /\ sres' = "Panic" /\ spc' = "idle" /\ smin' = min /\ sidx' = 0
          ELSE IF NumChunks(min, size) = 0
          THEN /\ sres' = "SomeOk" /\ spc' = "idle" /\ smin' = min /\ sidx' = 0
          ELSE /\ sres' = "none" /\ spc' = "build" /\ smin' = min /\ sidx' = 1
    /\ UNCHANGED <<lifeVars, wLength, wbuf, recvVars>>

\* build_and_send called with a closure of the caller
BuildAndSend(n, size) == BuildAndSendFrom(n, size, NoFrame)

\* send_to(packet, None): build_and_send(1, packet.packet().len(), closure
\* that clones the packet into the chunk)
SendTo(f) == BuildAndSendFrom(1, Len(f), [some |-> TRUE, bytes |-> f])

\* the same entry in a build that checks arithmetic: the multiplication
\* panics when the product does not fit usize
BuildAndSendOverflow(n, size) ==
    /\ sender = "alive" /\ spc = "idle" /\ sends < MaxSends
    /\ n * size >= UsizeMod
    /\ sends' = sends + 1
    /\ sargs' = [n |-> n, size |-> size]
    /\ slen0' = wLength
    /\ slog' = << >>
    /\ sres' = "Panic" /\ spc' = "idle" /\ smin' = 0 /\ sidx' = 0 /\ sold' = 0
    /\ frame' = NoFrame /\ wire' = << >>
    /\ UNCHANGED <<lifeVars, wLength, wbuf, recvVars>>

\* eh.clone_from(packet): the bytes of the packet copied to the start of
\* the chunk c of buf
CloneFrom(buf, c, bytes) ==
    [k \in 1 .. Len(buf) |->
        IF c.off < k /\ k <= c.off + c.len /\ k - c.off <= Len(bytes)
        THEN bytes[k - c.off] ELSE buf[k]]

\* func(MutableEthernetHeader::new(chunk)); a closure of the caller is taken
\* to leave the chunk as it is
Build ==
    /\ spc = "build"
    /\ LET c == Chunk(smin, sargs.size, sidx)
       IN /\ slog' = Append(slog, SLog("build", sidx, c.off, c.len, 1))
          /\ wbuf' = IF frame.some THEN CloneFrom(wbuf, c, frame.bytes) ELSE wbuf
    /\ spc' = "send"
    /\ UNCHANGED <<lifeVars, wLength, sargs, smin, sidx, sold, sres, slen0, sends,
                   frame, wire, recvVars>>

\* old_len = Length; Length = packet_size as u32; PacketSendPacket is entered
SendPacketOnReadDescriptor ==
    /\ spc = "send"
    /\ sold' = wLength
    /\ rLength' = AsU32(sargs.size)
    /\ spc' = "insend"
    /\ UNCHANGED <<lifeVars, wLength, sargs, smin, sidx, sres, slog, slen0, sends,
                   frame, wbuf, wire, rBytes, rbuf, iter, rpc, packets, rret, rres,
                   rview, recvs, batch, queued, decoded, yielded, rdata, echo>>
SendPacket ==
    /\ spc = "send"
    /\ sold' = wLength
    /\ wLength' = AsU32(sargs.size)
    /\ spc' = "insend"
    /\ UNCHANGED <<lifeVars, sargs, smin, sidx, sres, slog, slen0, sends,
                   frame, wbuf, wire, recvVars>>

\* the bytes PacketSendPacket takes from the descriptor: Length bytes from
\* the start of its buffer
Transmitted(buf, length) == SubSeq(buf, 1, Min(length, Len(buf)))

\* the value Length is given once PacketSendPacket has returned
RestoredLength(old, cur) == old

\* what follows a PacketSendPacket that returned ret for chunk idx of total
AfterSendIgnoreRet(ret, idx, total) ==
    IF idx < total THEN "next" ELSE "SomeOk"
AfterSend(ret, idx, total) ==
    IF ret = 0 THEN "SomeErr" ELSE IF idx < total THEN "next" ELSE "SomeOk"

\* PacketSendPacket returns ret; Length = old_len; match ret
SendPacketReturn(ret) ==
    /\ spc = "insend"
    /\ slog' = Append(slog, SLog("send", sidx, 0, wLength, ret))
    /\ wire' = Append(wire, Transmitted(wbuf, wLength))
    /\ wLength' = RestoredLength(sold, wLength)
    /\ LET a == AfterSend(ret, sidx, NumChunks(smin, sargs.size))
       IN IF a = "next"
          THEN /\ sidx' = sidx + 1 /\ spc' = "build" /\ sres' = sres
          ELSE /\ sidx' = sidx /\ spc' = "idle" /\ sres' = a
    /\ UNCHANGED <<lifeVars, sargs, smin, sold, slen0, sends, frame, wbuf, recvVars>>

(***************************************************************************)
(* The driver's side of PacketReceivePacket: the record framing of the     *)
(* receive buffer.                                                         *)
(***************************************************************************)
\* wordAlign(x) = ((x + (W-1)) / W) * W
WordAlign(x) == ((x + (WordSize - 1)) \div WordSize) * WordSize

\* bpf::BPF_WORDALIGN, the alignment the decode loop applies
BPF_WORDALIGN(x) == ((x + (WordSize - 1)) \div WordSize) * WordSize

\* the record headers a driver may write
RecVals == { [hdrlen |-> 16, caplen |-> 40], [hdrlen |-> 16, caplen |-> 3] }

RECURSIVE SeqsUpTo(_, _)
SeqsUpTo(S, k) ==
    IF k = 0 THEN { << >> }
    ELSE LET shorter == SeqsUpTo(S, k - 1)
         IN shorter \cup { Append(q, x) : q \in {r \in shorter : Len(r) = k - 1}, x \in S }

\* where the driver puts record i of recs
RECURSIVE RecPos(_, _)
RecPos(recs, i) ==
    IF i = 1 THEN 0
    ELSE RecPos(recs, i - 1) + WordAlign(recs[i - 1].hdrlen + recs[i - 1].caplen)

\* the end of the last record's payload (0 for no record)
LayoutEnd(recs) ==
    IF recs = << >> THEN 0
    ELSE RecPos(recs, Len(recs)) + recs[Len(recs)].hdrlen + recs[Len(recs)].caplen

\* the buffer after the driver wrote the headers of recs at their places
DriverWrite(buf, recs) ==
    [k \in 1 .. Len(buf) |->
        IF \E i \in 1 .. Len(recs) : RecPos(recs, i) = (k - 1) * WordSize
        THEN recs[CHOOSE i \in 1 .. Len(recs) : RecPos(recs, i) = (k - 1) * WordSize]
        ELSE buf[k]]

\* the bytes of the buffer after the driver wrote the payload pays[i] of
\* record i of recs behind its header
DriverWriteData(data, recs, pays) ==
    [k \in 1 .. Len(data) |->
        LET In(i) == /\ RecPos(recs, i) + recs[i].hdrlen < k
                     /\ k <= RecPos(recs, i) + recs[i].hdrlen + Len(pays[i])
        IN IF \E i \in 1 .. Len(recs) : In(i)
           THEN LET i == CHOOSE j \in 1 .. Len(recs) : In(j)
                IN pays[i][k - (RecPos(recs, i) + recs[i].hdrlen)]
           ELSE data[k]]

\* the ulBytesReceived values a driver may report for recs: the exact end of
\* the last payload, that end word-aligned, one word short, one word more
BytesChoices(recs, cap) ==
    LET e == LayoutEnd(recs)
    IN {n \in {e, WordAlign(e), e - WordSize, WordAlign(e) + WordSize} : 0 <= n /\ n <= cap}

(***************************************************************************)
(* DataLinkReceiverImpl::iter and DataLinkChannelIteratorImpl::next.       *)
(***************************************************************************)
\* *(ptr as *const bpf_hdr) for ptr = Buffer + off
HeaderAt(buf, off) == buf[(off \div WordSize) + 1]

\* (start, (*packet).bh_caplen) pushed for the header found at off
FrameRecordNoHeader(off, hdr) == [start |-> off, len |-> hdr.caplen]
FrameRecord(off, hdr) == [start |-> off + hdr.hdrlen, len |-> hdr.caplen]

\* ptr.offset(BPF_WORDALIGN(bh_hdrlen + bh_caplen))
Advance(hdr) == BPF_WORDALIGN(hdr.hdrlen + hdr.caplen)

\* the while loop from ptr = Buffer + off to end = Buffer + buflen: the
\* records pushed, and whether the loop ends ("done") or stops advancing
\* and pushes for ever ("hang")
RECURSIVE Decode(_, _, _)
Decode(buf, off, end) ==
    IF ~(off < end) THEN [recs |-> << >>, st |-> "done"]
    ELSE LET hdr == HeaderAt(buf, off)
             rec == FrameRecord(off, hdr)
         IN IF Advance(hdr) = 0 THEN [recs |-> << rec >>, st |-> "hang"]
            ELSE LET rest == Decode(buf, off + Advance(hdr), end)
                 IN [recs |-> << rec >> \o rest.recs, st |-> rest.st]

\* self.packets.pop_front(): the record taken and the queue left
PopBack(q) == [rec |-> q[Len(q)], rest |-> SubSeq(q, 1, Len(q) - 1)]
PopFront(q) == [rec |-> Head(q), rest |-> Tail(q)]

\* slice::from_raw_parts(start, len): the bytes of the view v of the buffer
ViewBytes(data, v) == [i \in 1 .. v.len |-> data[v.start + i]]

\* DataLinkReceiverImpl::iter
Iter ==
    /\ receiver = "alive" /\ iter = FALSE
    /\ iter' = TRUE
    /\ rpc' = "idle" /\ packets' = << >> /\ rret' = -1 /\ rres' = "none"
    /\ rview' = NoView /\ batch' = NoBatch /\ queued' = << >>
    /\ decoded' = << >> /\ yielded' = << >> /\ echo' = << >>
    /\ UNCHANGED <<lifeVars, sendVars, rLength, rBytes, rbuf, recvs, rdata>>

\* the iterator goes out of scope (not while next() runs)
IterDrop ==
    /\ iter = TRUE /\ rpc = "idle"
    /\ iter' = FALSE
    /\ UNCHANGED <<lifeVars, sendVars, rLength, rBytes, rbuf, rpc, packets, rret, rres,
                   rview, recvs, batch, queued, decoded, yielded, rdata, echo>>

\* next() with a record queued: pop_front, build the slice
NextPop ==
    /\ iter = TRUE /\ rpc = "idle" /\ packets # << >>
    /\ LET p == PopFront(packets)
       IN /\ packets' = p.rest
          /\ rview' = p.rec
          /\ yielded' = Append(yielded, p.rec)
    /\ rres' = "Ok"
    /\ UNCHANGED <<lifeVars, sendVars, rLength, rBytes, rbuf, iter, rpc, rret, recvs,
                   batch, queued, decoded, rdata, echo>>

\* a next() that enters PacketReceivePacket whatever the queue holds
NextReceiveAlways ==
    /\ iter = TRUE /\ rpc = "idle"
    /\ recvs < MaxRecvs
    /\ rpc' = "inrecv"
    /\ recvs' = recvs + 1
    /\ rres' = "none"
    /\ UNCHANGED <<lifeVars, sendVars, rLength, rBytes, rbuf, iter, packets, rret,
                   rview, batch, queued, decoded, yielded, rdata, echo>>

\* next() with nothing queued: PacketReceivePacket is entered
NextReceive ==
    /\ iter = TRUE /\ rpc = "idle" /\ packets = << >>
    /\ recvs < MaxRecvs
    /\ rpc' = "inrecv"
    /\ recvs' = recvs + 1
    /\ rres' = "none"
    /\ UNCHANGED <<lifeVars, sendVars, rLength, rBytes, rbuf, iter, packets, rret,
                   rview, batch, queued, decoded, yielded, rdata, echo>>

\* the rest of next() once PacketReceivePacket has returned ret != 0 with
\* the buffer buf and ulBytesReceived = n: the decode loop, then
\* pop_front().unwrap() and the slice
DecodeAndPop(ret, buf, n) ==
    LET d == Decode(buf, 0, n)
        q == packets \o d.recs
    IN /\ rret' = ret
       /\ rbuf' = buf
       /\ rBytes' = n
       /\ queued' = d.recs
       /\ decoded' = decoded \o d.recs
       /\ IF d.st = "hang"
          THEN /\ rpc' = "hang" /\ rres' = "none" /\ packets' = q
               /\ iter' = iter /\ rview' = rview /\ yielded' = yielded
          ELSE IF q = << >>
          THEN \* unwrap() of None panics; unwinding drops the iterator
               /\ rpc' = "idle" /\ rres' = "Panic" /\ packets' = q
               /\ iter' = FALSE /\ rview' = rview /\ yielded' = yielded
          ELSE /\ rpc' = "idle" /\ rres' = "Ok"
               /\ packets' = PopFront(q).rest
               /\ rview' = PopFront(q).rec
               /\ yielded' = Append(yielded, PopFront(q).rec)
               /\ iter' = iter

\* PacketReceivePacket returns non-zero having written recs and reporting n bytes
\* with payloads of zero bytes
ReceiveReturns(recs, n) ==
    /\ rpc = "inrecv"
    /\ batch' = [recs |-> recs, n |-> n]
    /\ rdata' = DriverWriteData(rdata, recs, [i \in 1 .. Len(recs) |-> Zeros(recs[i].caplen)])
    /\ echo' = << >>
    /\ DecodeAndPop(1, DriverWrite(rbuf, recs), n)
    /\ UNCHANGED <<lifeVars, sendVars, rLength, recvs>>

\* the header length of the record the driver makes of a looped-back frame
EchoHdrLen == 16

\* PacketReceivePacket returns non-zero having written one well-formed
\* record whose payload is the frame of the last transmit
ReceiveEcho ==
    /\ rpc = "inrecv" /\ wire # << >>
    /\ LET p == wire[Len(wire)]
           recs == << [hdrlen |-> EchoHdrLen, caplen |-> Len(p)] >>
       IN /\ LayoutEnd(recs) <= rLength
          /\ batch' = [recs |-> recs, n |-> LayoutEnd(recs)]
          /\ rdata' = DriverWriteData(rdata, recs, << p >>)
          /\ echo' = p
          /\ DecodeAndPop(1, DriverWrite(rbuf, recs), LayoutEnd(recs))
    /\ UNCHANGED <<lifeVars, sendVars, rLength, recvs>>

\* PacketReceivePacket returns 0: Err(IoError::last_error())
ReceiveFailsUnchecked ==
    /\ rpc = "inrecv"
    /\ batch' = batch /\ rdata' = rdata /\ echo' = echo
    /\ DecodeAndPop(0, rbuf, rBytes)
    /\ UNCHANGED <<lifeVars, sendVars, rLength, recvs>>
ReceiveFails ==
    /\ rpc = "inrecv"
    /\ rret' = 0
    /\ rpc' = "idle"
    /\ rres' = "Err"
    /\ UNCHANGED <<lifeVars, sendVars, rLength, rBytes, rbuf, iter, packets,
                   rview, recvs, batch, queued, decoded, yielded, rdata, echo>>

(***************************************************************************)
(* Specifications.                                                         *)
(***************************************************************************)
\* 0: every stage of datalink_channel succeeds; i: stage i fails
Failures == 0 .. Len(Stages)

OpenChannel == \E rs \in ReadBufSizes, ws \in WriteBufSizes, fail \in Failures : Open(rs, ws, fail)

\* a datalink_channel call in which every driver call succeeds
OpenOk == \E rs \in ReadBufSizes, ws \in WriteBufSizes : Open(rs, ws, 0)

\* the channel's life: opened, and its two halves dropped in either order
NextLife ==
    \/ OpenChannel
    \/ DropSender
    \/ DropReceiver

SpecLife == Init /\ [][NextLife]_vars

\* the thread that owns the sender
NextSend ==
    \/ OpenOk
    \/ \E n \in Counts, size \in PacketSizes : BuildAndSend(n, size)
    \/ \E n \in Counts, size \in PacketSizes : BuildAndSendOverflow(n, size)
    \/ Build
    \/ SendPacket
    \/ \E ret \in {0, 1} : SendPacketReturn(ret)

SpecSend == Init /\ [][NextSend]_vars

\* the thread that owns the receiver
NextRecv ==
    \/ OpenOk
    \/ Iter
    \/ IterDrop
    \/ NextPop
    \/ NextReceive
    \/ ReceiveFails
    \/ \E recs \in SeqsUpTo(RecVals, MaxRecs) :
          /\ LayoutEnd(recs) <= rLength
          /\ \E n \in BytesChoices(recs, rLength) : ReceiveReturns(recs, n)

SpecRecv == Init /\ [][NextRecv]_vars

\* the packets given to send_to: short frames of every content, the empty
\* one included, and a frame as long as the write buffer
Frames == {<< >>, <<1>>, <<2>>, <<1, 2>>, <<2, 1>>} \cup {Zeros(ws) : ws \in WriteBufSizes}

\* the steps of the thread that owns the sender
SenderStep ==
    \/ \E f \in Frames : SendTo(f)
    \/ \E size \in {1, 2} : BuildAndSend(2, size)
    \/ Build
    \/ SendPacket
    \/ \E ret \in {0, 1} : SendPacketReturn(ret)

\* the steps of the thread that owns the receiver, the driver looping the
\* transmitted frames back
ReceiverStep ==
    \/ Iter
    \/ IterDrop
    \/ NextPop
    \/ NextReceive
    \/ ReceiveFails
    \/ ReceiveEcho
    \/ \E r \in RecVals : ReceiveReturns(<< r, r >>, LayoutEnd(<< r, r >>))

\* the two threads of one channel, interleaved
Next ==
    \/ OpenOk
    \/ SenderStep
    \/ ReceiverStep

Spec == Init /\ [][Next]_vars

(***************************************************************************)
(* Properties of build_and_send (checked under SpecSend).                  *)
(***************************************************************************)
Builds == SelectSeq(slog, LAMBDA e : e.op = "build")
Sends == SelectSeq(slog, LAMBDA e : e.op = "send")

\* a build_and_send call has been made and has come to its end
CallEnded == sends > 0 /\ spc = "idle"

\* C1: for every count and frameSize with count*frameSize >= capacity
\* (equality included) the call returns None, and neither build nor the
\* transmit driver call is invoked.
C1_TooLargeReturnsNone ==
    (sends > 0 /\ sargs.n * sargs.size >= slen0)
        => (spc = "idle" /\ sres = "None" /\ slog = << >>)

\* C2: for every count and frameSize with count*frameSize < capacity, a call
\* in which no transmit fails invokes build exactly count times, on chunks in
\* strictly increasing offset order, the build of chunk i preceding every
\* transmit of chunk i or of a later chunk.
C2_BuildsCountTimesInOrder ==
    (CallEnded /\ sargs.n * sargs.size < slen0 /\ \A i \in 1 .. Len(Sends) : Sends[i].ret # 0)
        => /\ Len(Builds) = sargs.n
           /\ \A i, j \in 1 .. Len(Builds) : i < j => Builds[i].off < Builds[j].off
           /\ \A i, j \in 1 .. Len(slog) :
                 (slog[i].op = "send" /\ slog[j].op = "build" /\ slog[j].idx <= slog[i].idx)
                     => j < i

\* C3: the first transmit that returns zero ends the call at once with
\* Some(Err): it is the last event of the call, every earlier chunk was built
\* and transmitted with a non-zero result and stays transmitted; a call whose
\* transmits all return non-zero transmits every chunk and returns Some(Ok).
C3_FirstFailureStops ==
    /\ \A i \in 1 .. Len(slog) :
          (slog[i].op = "send" /\ slog[i].ret = 0)
              => (i = Len(slog) /\ spc = "idle" /\ sres = "SomeErr")
    /\ sres = "SomeErr"
          => /\ Sends # << >>
             /\ Sends[Len(Sends)].ret = 0
             /\ \A k \in 1 .. (Len(Sends) - 1) : Sends[k].idx = k /\ Sends[k].ret # 0
             /\ Len(Builds) = Len(Sends)
    /\ (CallEnded /\ Sends # << >> /\ \A k \in 1 .. Len(Sends) : Sends[k].ret # 0)
          => (sres = "SomeOk" /\ Len(Sends) = NumChunks(smin, sargs.size))
    /\ sres = "SomeOk" => \A k \in 1 .. Len(Sends) : Sends[k].ret # 0

\* C3 witness: the transmit of the second chunk failed after the first went out
C3_Witness ==
    /\ sres = "SomeErr" /\ Len(Sends) = 2 /\ Sends[1].ret = 1 /\ Sends[2].ret = 0
    /\ sargs.n = 3

\* C4: during every transmit driver call the length field of the write
\* descriptor equals frameSize; once the call has returned the field has the
\* value it had before the chunk, so after build_and_send ends, with any
\* outcome, the field equals its value before the call.
C4_LengthIsFrameSizeThenRestored ==
    /\ spc = "insend" => wLength = sargs.size
    /\ \A i \in 1 .. Len(slog) : slog[i].op = "send" => slog[i].len = sargs.size
    /\ spc # "insend" => wLength = slen0 \/ sends = 0

\* C19: for every count and frameSize of the machine word, whenever a
\* transmit driver call is issued, the chunk given to build for it was
\* exactly frameSize bytes lying inside the write buffer, and the length
\* field during the call is frameSize, which is at most the capacity; a call
\* with frameSize = 0 transmits nothing and does not end abnormally.
C19_TransmitsWholeChunks ==
    /\ spc \in {"build", "send", "insend"}
          => /\ Chunk(smin, sargs.size, sidx).len = sargs.size
             /\ Chunk(smin, sargs.size, sidx).off + sargs.size <= slen0
             /\ sargs.size <= slen0
    /\ spc = "insend" => wLength = sargs.size
    /\ (sends > 0 /\ sargs.size = 0) => (Sends = << >> /\ sres # "Panic")

(***************************************************************************)
(* Properties of next() (checked under SpecRecv).                          *)
(***************************************************************************)
\* C5: when next() finds the queue empty and PacketReceivePacket returns
\* zero, next() returns Err and leaves the queue as it was, empty; the next
\* call of next() on the iterator issues a receive again.
C5_FailedReceiveLeavesQueueEmpty ==
    [][ /\ (rpc = "inrecv" /\ rret' = 0)
            => (rres' = "Err" /\ rpc' = "idle" /\ packets' = packets /\ packets' = << >>
                /\ iter' /\ decoded' = decoded /\ yielded' = yielded)
        /\ (iter /\ iter' /\ rpc = "idle" /\ rres = "Err" /\ rret = 0 /\ recvs < MaxRecvs)
            => (rpc' = "inrecv" /\ recvs' = recvs + 1)
      ]_vars

\* C5 witness: a receive failed, and the call after it is inside the driver again
C5_Witness == rpc = "inrecv" /\ rret = 0 /\ rres = "none" /\ recvs = 2

\* C6: when next() finds the queue empty and the receive succeeds reporting
\* zero bytes, nothing is decoded, next() does not crash, the iterator stays
\* usable with an empty queue and no frame is yielded.
C6_EmptyReceiveStaysEmpty ==
    (recvs > 0 /\ rpc = "idle" /\ rret = 1 /\ rBytes = 0 /\ yielded = << >>)
        => (rres # "Panic" /\ iter /\ packets = << >>)

\* a batch of well-formed records: the bytes reported reach the end of the
\* last payload and end with its record
WellFormed(b) ==
    /\ \A i \in 1 .. Len(b.recs) : b.recs[i].hdrlen > 0
    /\ LayoutEnd(b.recs) <= b.n
    /\ b.n <= WordAlign(LayoutEnd(b.recs))

\* the FrameRecords of the records the driver wrote
ExpectedRecords(recs) ==
    [i \in 1 .. Len(recs) |->
        [start |-> RecPos(recs, i) + recs[i].hdrlen, len |-> recs[i].caplen]]

\* C7: for a receive buffer of consecutive well-formed records within
\* bytesReceived the decode loop queues exactly one FrameRecord per record,
\* offset = record start + headerLength and length = capturedLength, the
\* records starting wordAlign(headerLength + capturedLength) apart.
C7_DecodeWellFormed ==
    (rret = 1 /\ rpc = "idle" /\ WellFormed(batch)) => queued = ExpectedRecords(batch.recs)

\* C7 witness: two records of headerLength 16 and capturedLength 40, W = 8,
\* decoded as (16, 40) and (72, 40)
C7_Witness ==
    /\ rret = 1 /\ rpc = "idle" /\ WellFormed(batch)
    /\ batch.recs = << [hdrlen |-> 16, caplen |-> 40], [hdrlen |-> 16, caplen |-> 40] >>
    /\ queued = << [start |-> 16, len |-> 40], [start |-> 72, len |-> 40] >>

\* C8: frames are yielded first in, first out: what has been yielded,
\* followed by what is queued, is what was decoded, batch after batch and in
\* buffer order within a batch; no record is yielded twice.
C8_Fifo ==
    /\ yielded \o packets = decoded
    /\ rres = "Ok" => (yielded # << >> /\ rview = yielded[Len(yielded)])

\* C8 witness: frames of two receive batches were yielded, the first batch whole
C8_Witness ==
    /\ recvs = 2 /\ Len(yielded) = 3 /\ Len(decoded) = 4 /\ rres = "Ok"
    /\ yielded[1].start < yielded[2].start

\* C16: every view next() yields lies within the bytes the last receive
\* delivered, offset + length <= bytesReceived <= capacity; a record that
\* would reach past them is an error, not a view.
C16_ViewsWithinReceived ==
    rres = "Ok" => (rview.start + rview.len <= rBytes /\ rBytes <= rLength)

\* C17: a receive is issued only when the queue is empty, and every queued
\* record was decoded from the most recent successful receive: the queue is
\* what is left of that receive's records.
C17_ReceiveOnlyWhenEmpty ==
    /\ rpc = "inrecv" => packets = << >>
    /\ \E k \in 0 .. Len(queued) : packets = SubSeq(queued, k + 1, Len(queued))

\* C17 witness: the first batch was yielded whole, a second receive was
\* issued and its records are queued
C17_Witness ==
    /\ recvs = 2 /\ rpc = "idle" /\ rret = 1 /\ packets # << >>
    /\ Len(decoded) = 4 /\ Len(yielded) = 3 /\ Len(queued) = 2

\* C18: the decode loop terminates for every content of the receive buffer:
\* each iteration moves the cursor forward, so the records decoded from one
\* receive are at most bytesReceived many.
C18_DecodeTerminates ==
    /\ rpc # "hang"
    /\ rret = 1 => Len(queued) <= rBytes

(***************************************************************************)
(* Properties of the channel's life (checked under SpecLife).              *)
(***************************************************************************)
\* the number of events of trace that satisfy Test
Count(Test(_)) == Len(SelectSeq(trace, Test))

Closes(h) == Count(LAMBDA e : e.op = "PacketCloseAdapter" /\ e.h = h)
AdapterOpened(h) == Count(LAMBDA e : e.op = "PacketOpenAdapter" /\ e.h = h /\ e.ok) = 1
Allocs(obj, h) == Count(LAMBDA e : e.op = "PacketAllocatePacket" /\ e.obj = obj /\ e.h = h /\ e.ok)
Frees(obj, h) == Count(LAMBDA e : e.op = "PacketFreePacket" /\ e.obj = obj /\ e.h = h)
\* datalink_channel call h failed / returned the pair
Failed(h) == Count(LAMBDA e : e.h = h /\ ~e.ok) > 0
Succeeded(h) == h \in 1 .. opens /\ ~Failed(h)
\* both halves of channel h have been dropped
BothDropped(h) == h < opens \/ (sender = "dropped" /\ receiver = "dropped")

\* C9: after a successful open, whatever the order of the two drops, the
\* adapter is closed exactly once, and only when both the sender and the
\* receiver have been dropped; over a whole run there are as many
\* closeAdapter calls as successful openAdapter calls.
C9_ClosedOnceAfterBothDropped ==
    /\ \A h \in 1 .. opens :
          Succeeded(h) => Closes(h) = (IF BothDropped(h) THEN 1 ELSE 0)
    /\ (sender # "alive" /\ receiver # "alive")
          => Count(LAMBDA e : e.op = "PacketCloseAdapter")
                = Count(LAMBDA e : e.op = "PacketOpenAdapter" /\ e.ok)

\* C9 witness: the receiver was dropped first, the sender last, and the
\* adapter is closed
C9_Witness ==
    /\ Succeeded(opens) /\ sender = "dropped" /\ receiver = "dropped"
    /\ trace[Len(trace)].obj = "w" /\ Closes(opens) = 1

\* C10: when a step after a successful openAdapter fails, datalink_channel
\* returns an error, no sender or receiver exists, the adapter is closed
\* exactly once and every descriptor that was allocated is freed exactly
\* once; when openAdapter returns null, closeAdapter is never called.
C10_FailedOpenUnwinds ==
    /\ \A h \in 1 .. opens :
          Failed(h) => /\ Closes(h) = (IF AdapterOpened(h) THEN 1 ELSE 0)
                       /\ Frees("r", h) = Allocs("r", h)
                       /\ Frees("w", h) = Allocs("w", h)
    /\ (opens > 0 /\ Failed(opens))
          => (openRes = "Err" /\ sender = "none" /\ receiver = "none" /\ arc = 0)

\* C10 witness: the allocation of the write descriptor failed after the read
\* descriptor had been allocated
C10_Witness ==
    /\ opens > 0 /\ Failed(opens) /\ Allocs("r", opens) = 1 /\ Frees("r", opens) = 1
    /\ Closes(opens) = 1

\* the driver calls of datalink_channel call h, in the order they were issued
SetupCalls(h) ==
    SelectSeq(trace, LAMBDA e : e.h = h /\ e.op \in
        {"PacketOpenAdapter", "PacketSetHwFilter", "PacketSetBuff",
         "PacketSetMinToCopy", "PacketAllocatePacket", "PacketInitPacket"})

SetupOrder ==
    << <<"PacketOpenAdapter", "adapter">>, <<"PacketSetHwFilter", "adapter">>,
       <<"PacketSetBuff", "adapter">>, <<"PacketSetMinToCopy", "adapter">>,
       <<"PacketAllocatePacket", "r">>, <<"PacketInitPacket", "r">>,
       <<"PacketAllocatePacket", "w">>, <<"PacketInitPacket", "w">> >>

\* C11: datalink_channel issues its setup calls in the fixed order
\* openAdapter, setFilter, setKernelBufferSize, setImmediateMode, then the
\* allocation of the read descriptor and of the write descriptor; a call is
\* issued only if every earlier one succeeded, so a failed call is the last
\* one, and a successful open has issued them all.
C11_SetupInOrder ==
    \A h \in 1 .. opens :
        LET s == SetupCalls(h) IN
        /\ Len(s) <= Len(SetupOrder)
        /\ \A i \in 1 .. Len(s) :
              /\ << s[i].op, s[i].obj >> = SetupOrder[i]
              /\ i < Len(s) => s[i].ok
        /\ Succeeded(h) => Len(s) = Len(SetupOrder)

\* C11 witness: setKernelBufferSize failed after openAdapter and setFilter
\* succeeded, and nothing was issued after it
C11_Witness ==
    /\ opens > 0 /\ Len(SetupCalls(opens)) = 3
    /\ SetupCalls(opens)[3] = Ev("PacketSetBuff", "adapter", opens, FALSE)
    /\ SetupCalls(opens)[1].ok /\ SetupCalls(opens)[2].ok

\* the positions of trace that hold an event e with Test(e)
Positions(Test(_)) == {i \in 1 .. Len(trace) : Test(trace[i])}

\* C12: on every teardown path, the failed open and the drop of the second
\* half of a channel alike, each descriptor that was allocated is freed
\* before the adapter of its channel is closed.
C12_FreedBeforeClose ==
    \A h \in 1 .. opens : \A obj \in {"r", "w"} :
        \A c \in Positions(LAMBDA e : e.op = "PacketCloseAdapter" /\ e.h = h) :
            Allocs(obj, h) = 1
                => \E f \in Positions(LAMBDA e : e.op = "PacketFreePacket"
                                               /\ e.obj = obj /\ e.h = h) : f < c

\* C13: a descriptor that is allocated and not yet freed is bound to a
\* backing array that is still allocated: on every path the descriptor is
\* freed before its backing array is released.
C13_DescriptorFreedBeforeArray ==
    \A h \in 1 .. opens : \A obj \in {"r", "w"} :
        \A v \in Positions(LAMBDA e : e.op = "VecFree" /\ e.obj = obj /\ e.h = h) :
            Allocs(obj, h) = 1
                => \E f \in Positions(LAMBDA e : e.op = "PacketFreePacket"
                                               /\ e.obj = obj /\ e.h = h) : f < v

(***************************************************************************)
(* Properties of the sender and the receiver together (checked under Spec).*)
(***************************************************************************)
\* C14: send_to of a frame of n bytes with n < the write capacity, when the
\* driver accepts the transmit, performs exactly one build and one transmit
\* of length n that carries the frame's bytes; and when the receive that
\* follows delivers one well-formed record whose payload is the transmitted
\* bytes, next() yields a view of exactly n bytes equal to the frame.
C14_SendOneRoundTrip ==
    /\ (CallEnded /\ frame.some /\ Len(frame.bytes) < slen0
            /\ \A i \in 1 .. Len(Sends) : Sends[i].ret # 0)
          => /\ sres = "SomeOk"
             /\ Len(Builds) = 1 /\ Len(Sends) = 1
             /\ Sends[1].len = Len(frame.bytes)
             /\ wire = << frame.bytes >>
    /\ (rpc = "idle" /\ rret = 1 /\ rres = "Ok" /\ echo # << >>
            /\ frame.some /\ wire # << >> /\ echo = wire[Len(wire)])
          => /\ rview.len = Len(frame.bytes)
             /\ ViewBytes(rdata, rview) = frame.bytes

\* a step of the sender's thread / of the receiver's thread
SenderMoves == spc' # spc \/ sends' # sends
ReceiverMoves == rpc' # rpc \/ iter' # iter \/ yielded' # yielded

\* the result of a build_and_send call from what the sender alone was given:
\* the arguments, the capacity at the call and the driver's returns
SendResultOf(args, cap, log) ==
    IF WrappingMul(args.n, args.size) >= cap THEN "None"
    ELSE IF args.size = 0 THEN "Panic"
    ELSE IF \E i \in 1 .. Len(log) : log[i].op = "send" /\ log[i].ret = 0 THEN "SomeErr"
    ELSE "SomeOk"

\* C15: under every interleaving of the sender's thread and the receiver's
\* thread, a transmit uses the write descriptor only and a receive the read
\* descriptor only: no step of the sender changes the read descriptor, the
\* read buffer or the queue, no step of the receiver changes the length
\* field of the write descriptor or the write buffer, and each operation's
\* result is the one it has when run alone.
C15_SenderAndReceiverDisjoint ==
    [][ opens' = opens =>
          /\ SenderMoves => UNCHANGED recvVars
          /\ ReceiverMoves => UNCHANGED sendVars
          /\ (spc = "send" /\ spc' = "insend") => wLength' = AsU32(sargs.size)
          /\ (SenderMoves /\ spc' = "idle") => sres' = SendResultOf(sargs', slen0', slog')
          /\ (rpc = "inrecv" /\ rres' = "Ok")
                => (rBytes' = batch'.n /\ rview' = ExpectedRecords(batch'.recs)[1])
      ]_vars

\* C15 witness: the sender is inside PacketSendPacket while the receiver is
\* inside PacketReceivePacket, each for the second time
C15_Witness == spc = "insend" /\ rpc = "inrecv" /\ sends = 2 /\ recvs = 2

====
